---- MODULE Spec2Model ----
(***************************************************************************)
(* A model of flask_project/app.py: the single-slot Deck Store (ppt_data), *)
(* the three routes /upload, /chat and /download, the instruction resolver *)
(* (parse_chat_and_apply) and the four mutation handlers.                  *)
(*                                                                         *)
(* Modelling conventions                                                   *)
(*  - A deck is a sequence of slides, a slide a sequence of shapes, a      *)
(*    shape a record.  Text is a sequence of one-character strings.        *)
(*  - Python's None for an optional value is the empty sequence; a present *)
(*    value v is <<v>>.  ppt_data["file_path"] is a natural number: 0 is   *)
(*    None, n > 0 is the name of the n-th temporary file ever created.     *)
(*  - A Python dict (the action descriptor) is a function whose DOMAIN is  *)
(*    the set of keys present.                                             *)
(*  - A call either returns or raises; both outcomes carry the deck as the *)
(*    call left it, because the handlers mutate the deck in place.         *)
(*  - The presentation library and the file system are external: a saved   *)
(*    file holds a copy of the deck as it was when prs.save ran, and       *)
(*    writing a temporary file does not fail.  The language model is an    *)
(*    input: any reply of Replies, an API error included.                  *)
(***************************************************************************)
EXTENDS Integers, Sequences, FiniteSets, TLC

\* ---------------------------------------------------------------- bounds
MaxSlides == 2      \* an uploaded deck has 0..MaxSlides slides
MaxShapes == 3      \* add_icon is not explored on a slide already this long
MaxText == 3        \* edit_text is not explored when a text would get longer
MaxFiles == 2       \* a run is explored until it has created this many temporary files

\* ------------------------------------------------------ python-pptx values
\* pptx.util.Inches(x) is int(x * 914400) EMU; the argument here is in tenths
\* of an inch, since the code uses 0.4 and 0.5.
Inches(tenths) == tenths * 91440

None == <<>>
Some(v) == <<v>>

NoFont == [name |-> "", size |-> 0]

TextBox(t, l) ==
    [kind |-> "textbox", text |-> t, font |-> NoFont,
     left |-> l, top |-> Inches(20), height |-> Inches(10)]

Picture(l) ==
    [kind |-> "picture", text |-> <<>>, font |-> NoFont,
     left |-> l, top |-> Inches(30), height |-> Inches(20)]

\* hasattr(shape, "text") and hasattr(shape, "text_frame"): python-pptx defines
\* both properties on the same class (autoshape.Shape and its placeholder
\* subclasses); pictures, graphic frames, groups and connectors have neither.
HasText(shape) == shape.kind = "textbox"

HasTextFrame(shape) == shape.kind = "textbox"

\* ------------------------------------------------------ python str values
MatchAt(s, old, i) ==
    /\ i + Len(old) - 1 <= Len(s)
    /\ \A k \in 1..Len(old) : s[i + k - 1] = old[k]

\* old in s
Contains(s, old) == \E i \in 1..(Len(s) + 1) : MatchAt(s, old, i)

RECURSIVE ReplaceFrom(_, _, _, _)
ReplaceFrom(s, old, new, i) ==
    IF i > Len(s) THEN <<>>
    ELSE IF MatchAt(s, old, i)
         THEN new \o ReplaceFrom(s, old, new, i + Len(old))
         ELSE <<s[i]>> \o ReplaceFrom(s, old, new, i + 1)

RECURSIVE Interleave(_, _, _)
Interleave(s, new, i) ==
    IF i > Len(s) THEN new
    ELSE new \o <<s[i]>> \o Interleave(s, new, i + 1)

\* s.replace(old, new, 1)
ReplaceFirstOnly(s, old, new) ==
    IF ~Contains(s, old) THEN s
    ELSE LET i == CHOOSE i \in 1..(Len(s) + 1) :
                      MatchAt(s, old, i) /\ \A j \in 1..(i - 1) : ~MatchAt(s, old, j)
         IN SubSeq(s, 1, i - 1) \o new \o SubSeq(s, i + Len(old), Len(s))

\* s.replace(old, new): every non-overlapping occurrence, left to right; an
\* empty old matches before every character and at the end.
Replace(s, old, new) ==
    IF old = <<>> THEN Interleave(s, new, 1) ELSE ReplaceFrom(s, old, new, 1)

RECURSIVE Join(_, _)
Join(sep, parts) ==
    IF parts = <<>> THEN <<>>
    ELSE IF Len(parts) = 1 THEN parts[1]
    ELSE parts[1] \o sep \o Join(sep, Tail(parts))

\* ------------------------------------------------------------- sequences
\* Python's seq[idx]: idx in -n..n-1 is accepted, a negative idx counts from
\* the end; anything else raises IndexError.  prs.slides[idx] indexes the
\* slide-id list the same way.
ValidIndex(idx, n) == -n <= idx /\ idx <= n - 1

PyIndex(idx, n) == IF idx >= 0 THEN idx + 1 ELSE n + idx + 1

\* ------------------------------------------------------- call outcomes
\* What a call leaves behind: the deck (mutated in place), the exception
\* type ("" when the call returned) and the returned string or, for a raise,
\* str(e), as the sequence of the parts it is concatenated from.
Return(deck, str) == [deck |-> deck, exc |-> "", ret |-> <<str>>]

Raise(deck, type, str) == [deck |-> deck, exc |-> type, ret |-> <<str>>]

\* args[key] on a dict without the key: KeyError, whose str() names the key.
KeyError(deck, key) == Raise(deck, "KeyError", key)

IndexError(deck) == Raise(deck, "IndexError", "slide index out of range")

TypeError(deck) ==
    Raise(deck, "TypeError", "unsupported operand type(s) for -: 'NoneType' and 'int'")

\* JSON values of the key slide_number: an integer or null.
JInt(n) == [type |-> "int", val |-> n]

JNull == [type |-> "null", val |-> 0]

\* isinstance(v, int)
IsInt(v) == v.type = "int"

\* ------------------------------------------------------- core utilities
\* A file's content: the deck as serialised when it was saved.
load_pptx(file) == file.deck

\* tempfile.NamedTemporaryFile(delete=False).name with n files created so far:
\* tempfile never reuses the name of an existing file and the program deletes
\* none.
NamedTemporaryFile(n) == n + 1

\* save_pptx(prs): the new file's name and its content, a copy of prs as it is
\* now.
save_pptx(prs, n) == [path |-> NamedTemporaryFile(n), content |-> Some(prs)]

get_slide_text(slide) ==
    Join(<<"\n">>, [k \in 1..Cardinality({j \in DOMAIN slide : HasText(slide[j])}) |->
        LET idx == CHOOSE j \in DOMAIN slide :
                      /\ HasText(slide[j])
                      /\ Cardinality({i \in 1..j : HasText(slide[i])}) = k
        IN slide[idx].text])

slides_info(prs) ==
    [i \in DOMAIN prs |-> [slide_number |-> i, text |-> get_slide_text(prs[i])]]

IconShape ==
    [kind |-> "picture", text |-> <<>>, font |-> NoFont,
     left |-> Inches(50), top |-> Inches(10), height |-> Inches(10)]

\* exists is os.path.exists(placeholder_path).
insert_placeholder_icon(slide, exists) ==
    IF exists THEN Append(slide, IconShape) ELSE slide

\* ------------------------------------------------------- action handlers
\* The scan of handle_edit_text: slides is the list slides_to_modify as slide
\* positions of prs, k the position in that list, j the shape position.
RECURSIVE EditScan(_, _, _, _, _)
EditScan(prs, args, slides, k, j) ==
    IF k > Len(slides) THEN Return(prs, "Text not found.")
    ELSE LET s == slides[k]
         IN IF j > Len(prs[s]) THEN EditScan(prs, args, slides, k + 1, 1)
            ELSE IF ~HasText(prs[s][j]) THEN EditScan(prs, args, slides, k, j + 1)
            ELSE IF "old_text" \notin DOMAIN args THEN KeyError(prs, "old_text")
            ELSE IF ~Contains(prs[s][j].text, args["old_text"])
                 THEN EditScan(prs, args, slides, k, j + 1)
            ELSE IF "new_text" \notin DOMAIN args THEN KeyError(prs, "new_text")
            ELSE Return([prs EXCEPT ![s][j].text =
                            Replace(@, args["old_text"], args["new_text"])],
                        "Edit applied.")

AllSlides(prs) == [i \in 1..Len(prs) |-> i]

handle_edit_text(prs, args) ==
    IF "slide_number" \notin DOMAIN args THEN KeyError(prs, "slide_number")
    ELSE IF IsInt(args["slide_number"])
         THEN LET idx == args["slide_number"].val - 1
              IN IF ~ValidIndex(idx, Len(prs)) THEN IndexError(prs)
                 ELSE EditScan(prs, args, <<PyIndex(idx, Len(prs))>>, 1, 1)
         ELSE EditScan(prs, args, AllSlides(prs), 1, 1)

\* slide = prs.slides[args["slide_number"] - 1], shared by the three other
\* handlers: the outcome of the lookup, with the slide position in ret's place.
SlideLookup(prs, args) ==
    IF "slide_number" \notin DOMAIN args THEN KeyError(prs, "slide_number")
    ELSE IF ~IsInt(args["slide_number"]) THEN TypeError(prs)
    ELSE LET idx == args["slide_number"].val - 1
         IN IF ~ValidIndex(idx, Len(prs)) THEN IndexError(prs)
            ELSE [deck |-> prs, exc |-> "", ret |-> <<>>, pos |-> PyIndex(idx, Len(prs))]

ArialFont == [name |-> "Arial", size |-> Inches(4)]

\* Styles the first shape with a text frame and stops.
StyleFirstOnly(slide) ==
    [j \in DOMAIN slide |->
        IF HasTextFrame(slide[j]) /\ \A i \in 1..(j - 1) : ~HasTextFrame(slide[i])
        THEN [slide[j] EXCEPT !.font = ArialFont]
        ELSE slide[j]]

StyleSlide(slide) ==
    [j \in DOMAIN slide |->
        IF HasTextFrame(slide[j]) THEN [slide[j] EXCEPT !.font = ArialFont]
        ELSE slide[j]]

handle_apply_style(prs, args) ==
    LET l == SlideLookup(prs, args)
    IN IF l.exc # "" THEN l
       ELSE Return([prs EXCEPT ![l.pos] = StyleSlide(@)], "Modern style applied.")

\* Reads args["keywords"] after the picture is inserted.
handle_add_icon_keywords(prs, args, exists) ==
    LET l == SlideLookup(prs, args)
    IN IF l.exc # "" THEN l
       ELSE LET deck == [prs EXCEPT ![l.pos] = insert_placeholder_icon(@, exists)]
            IN IF "keywords" \notin DOMAIN args THEN KeyError(deck, "keywords")
               ELSE Return(deck, "Placeholder icon added.")

handle_add_icon(prs, args, exists) ==
    LET l == SlideLookup(prs, args)
    IN IF l.exc # "" THEN l
       ELSE Return([prs EXCEPT ![l.pos] = insert_placeholder_icon(@, exists)],
                   "Placeholder icon added.")

LeftSlot(shape) == [shape EXCEPT !.left = Inches(5), !.top = Inches(5)]

RightSlot(shape) == [shape EXCEPT !.left = Inches(40), !.top = Inches(5)]

LayoutSlide(shapes) ==
    IF Len(shapes) >= 1 /\ HasText(shapes[1])
    THEN [j \in DOMAIN shapes |->
            IF j = 1 THEN LeftSlot(shapes[j])
            ELSE IF j = 2 THEN RightSlot(shapes[j])
            ELSE shapes[j]]
    ELSE shapes

\* Without the test len(shapes) > 1: shapes[1] raises on a one-shape slide,
\* after shapes[0] has moved.
handle_change_layout_unguarded(prs, args) ==
    LET l == SlideLookup(prs, args)
    IN IF l.exc # "" THEN l
       ELSE LET shapes == prs[l.pos]
            IN IF Len(shapes) >= 1 /\ HasText(shapes[1])
               THEN IF Len(shapes) > 1
                    THEN Return([prs EXCEPT ![l.pos] = LayoutSlide(@)], "Slide layout updated.")
                    ELSE Raise([prs EXCEPT ![l.pos][1] = LeftSlot(@)],
                               "IndexError", "list index out of range")
               ELSE Return(prs, "Slide layout updated.")

handle_change_layout(prs, args) ==
    LET l == SlideLookup(prs, args)
    IN IF l.exc # "" THEN l
       ELSE Return([prs EXCEPT ![l.pos] = LayoutSlide(@)], "Slide layout updated.")

\* --------------------------------------------------------- GPT parser
\* The model's raw reply is a sequence of tokens: "{" and "}", "kv" for a
\* well-formed list of JSON members and "w" for any other text.  A reply
\* carries the dict its "kv" decodes to (payload).

\* A non-greedy pattern: the span ends at the first "}" after the first "{".
re_search_lazy(raw) ==
    LET opens == {i \in DOMAIN raw : raw[i] = "{"}
        closes == {j \in DOMAIN raw : raw[j] = "}"}
    IN IF opens = {} THEN None
       ELSE LET i == CHOOSE i \in opens : \A x \in opens : i <= x
                after == {j \in closes : j > i}
            IN IF after = {} THEN None
               ELSE LET j == CHOOSE j \in after : \A x \in after : j <= x
                    IN Some(SubSeq(raw, i, j))

\* re.search(r'\{[\s\S]*\}', raw): the span from the first "{" to the last "}"
\* after it, or None.
re_search(raw) ==
    LET opens == {i \in DOMAIN raw : raw[i] = "{"}
        closes == {j \in DOMAIN raw : raw[j] = "}"}
    IN IF opens = {} THEN None
       ELSE LET i == CHOOSE i \in opens : \A x \in opens : i <= x
                after == {j \in closes : j > i}
            IN IF after = {} THEN None
               ELSE LET j == CHOOSE j \in after : \A x \in after : x <= j
                    IN Some(SubSeq(raw, i, j))

EmptyDict == [k \in {} |-> ""]

\* json.loads(json_text) accepts one object with nothing before or after it.
json_valid(span) == span \in {<<"{", "kv", "}">>, <<"{", "}">>}

json_loads(span, payload) == IF span = <<"{", "}">> THEN EmptyDict ELSE payload

action_map == {"edit_text", "apply_style", "add_icon", "change_layout"}

\* An outcome together with the handlers that were called, in order.
Traced(out, invoked) ==
    [deck |-> out.deck, exc |-> out.exc, ret |-> out.ret, invoked |-> invoked]

\* A table whose apply_style entry is the add_icon handler.
DispatchCrossed(name, prs, result, exists) ==
    IF name = "edit_text"
    THEN Traced(handle_edit_text(prs, result), <<"handle_edit_text">>)
    ELSE IF name = "change_layout"
    THEN Traced(handle_change_layout(prs, result), <<"handle_change_layout">>)
    ELSE Traced(handle_add_icon(prs, result, exists), <<"handle_add_icon">>)

\* action_func(prs, result) for a name of action_map
Dispatch(name, prs, result, exists) ==
    IF name = "edit_text"
    THEN Traced(handle_edit_text(prs, result), <<"handle_edit_text">>)
    ELSE IF name = "apply_style"
    THEN Traced(handle_apply_style(prs, result), <<"handle_apply_style">>)
    ELSE IF name = "add_icon"
    THEN Traced(handle_add_icon(prs, result, exists), <<"handle_add_icon">>)
    ELSE Traced(handle_change_layout(prs, result), <<"handle_change_layout">>)

\* Lines 106-120: the reply is in hand.
ParseAndApply(prs, reply, exists) ==
    LET m == re_search(reply.raw)
    IN IF m = None
       THEN Traced([deck |-> prs, exc |-> "",
                    ret |-> <<"Failed to parse GPT response: ", "AttributeError">>], <<>>)
       ELSE IF ~json_valid(m[1])
       THEN Traced([deck |-> prs, exc |-> "",
                    ret |-> <<"Failed to parse GPT response: ", "JSONDecodeError">>], <<>>)
       ELSE LET result == json_loads(m[1], reply.payload)
            IN IF "action" \notin DOMAIN result THEN Traced(KeyError(prs, "action"), <<>>)
               ELSE IF result["action"] \in action_map
                    THEN Dispatch(result["action"], prs, result, exists)
                    ELSE Traced(Return(prs, "Unknown action."), <<>>)

\* client.chat.completions.create raises when the provider cannot be reached
\* or refuses the request (reply.error).
parse_chat_and_apply(prs, reply, exists) ==
    IF reply.error THEN Traced(Raise(prs, "APIError", "Connection error."), <<>>)
    ELSE ParseAndApply(prs, reply, exists)

\* ------------------------------------------------------------- inputs
SeqsUpTo(S, n) == UNION {[1..k -> S] : k \in 0..n}

\* The slides uploaded decks are made of: [A(text), B(text), C(no text)], a
\* picture between two text boxes, a picture first, one text box alone.
SlidePool ==
    { <<TextBox(<<"a", "b", "a">>, 1), TextBox(<<"a", "b">>, 2), Picture(3)>>,
      <<TextBox(<<"b">>, 4), Picture(5), TextBox(<<"a", "a", "b">>, 6)>>,
      <<Picture(7), TextBox(<<"a", "a", "a">>, 8)>>,
      <<TextBox(<<"a">>, 9)>> }

\* Uploaded decks: up to MaxSlides different slides of the pool, in any order.
UploadDecks ==
    {d \in SeqsUpTo(SlidePool, MaxSlides) :
        \A i, j \in DOMAIN d : i # j => d[i] # d[j]}

\* request.files['file']: no such field, a file Presentation() rejects, or a
\* deck file.
UploadFiles ==
    {[kind |-> "missing", deck |-> <<>>], [kind |-> "corrupt", deck |-> <<>>]}
        \cup {[kind |-> "pptx", deck |-> d] : d \in UploadDecks}

Optional(key, values) == {EmptyDict} \cup {key :> v : v \in values}

SlideNumbers == {JInt(n) : n \in (0 - MaxSlides)..(MaxSlides + 1)}

OldTexts == {<<>>, <<"a">>, <<"a", "a">>}

NewTexts == {<<>>, <<"b">>, <<"b", "a">>}

Descriptors ==
    {("action" :> "edit_text") @@ n @@ ("old_text" :> o) @@ ("new_text" :> w) :
        n \in Optional("slide_number", SlideNumbers \cup {JNull}),
        o \in OldTexts, w \in NewTexts}
    \cup {("action" :> "edit_text") @@ ("slide_number" :> n) @@ o @@ w :
        n \in {JInt(1), JNull},
        o \in Optional("old_text", {<<"a">>}), w \in Optional("new_text", {<<"b">>})}
    \cup {("action" :> "apply_style") @@ n @@ y :
        n \in Optional("slide_number", SlideNumbers \cup {JNull}),
        y \in Optional("style", {"modern", "classic"})}
    \cup {("action" :> a) @@ n :
        a \in {"add_icon", "change_layout", "delete_slide"},
        n \in Optional("slide_number", SlideNumbers \cup {JNull})}
    \cup {"slide_number" :> JInt(1)}

InvalidRaws ==
    { <<>>, <<"w">>, <<"{", "kv">>, <<"}", "w", "{">>, <<"{", "w", "}">>,
      <<"{", "kv", "}", "w", "{", "kv", "}">> }

\* Prose around the object is tolerated; an empty object decodes to {}.
Replies ==
    {[error |-> TRUE, raw |-> <<>>, payload |-> EmptyDict]}
        \cup {[error |-> FALSE, raw |-> <<"{", "kv", "}">>, payload |-> d] :
                 d \in Descriptors}
        \cup {[error |-> FALSE, raw |-> <<"w", "{", "kv", "}", "w">>, payload |-> d] :
                 d \in {("action" :> a) @@ ("slide_number" :> JInt(1)) :
                           a \in {"change_layout", "delete_slide"}}}
        \cup {[error |-> FALSE, raw |-> r, payload |-> EmptyDict] :
                 r \in InvalidRaws \cup {<<"w", "{", "}">>}}

NoReply == [error |-> FALSE, raw |-> <<>>, payload |-> EmptyDict]

\* -------------------------------------------------------------- state
VARIABLES
    ppt_data,      \* [presentation, file_path]: the Deck Store
    file_content,  \* the content of the file ppt_data.file_path names (None: no file)
    nFiles,        \* temporary files created so far; none is ever deleted
    iconExists,    \* placeholder_icon.png exists beside app.py
    uploaded,      \* history: some /upload has succeeded
    examined,      \* history: pre and last describe the request just handled
    pre,           \* history: the store as the examined request found it
    last           \* history: the examined request and its response

vars == <<ppt_data, file_content, nFiles, iconExists, uploaded, examined, pre, last>>

\* pre and last record one request of a run, the examined one, and the run is
\* not extended after it.  Every run is the prefix of a longer one, so every
\* request of every run is the examined request of some behaviour.
Snapshot == [ppt_data |-> ppt_data, file_content |-> file_content, nFiles |-> nFiles]

NoSnapshot ==
    [ppt_data |-> [presentation |-> None, file_path |-> 0],
     file_content |-> None, nFiles |-> 0]

Response(ep, status, key, text, served, reply, llm, invoked) ==
    [ep |-> ep, status |-> status, body |-> [key |-> key, text |-> text],
     served |-> served, reply |-> reply, llmCalls |-> llm, invoked |-> invoked]

NoResponse == Response("", 0, "", <<>>, None, NoReply, 0, <<>>)

Record(examine, response) ==
    /\ examined' = examine
    /\ pre' = IF examine THEN Snapshot ELSE NoSnapshot
    /\ last' = IF examine THEN response ELSE NoResponse

Init ==
    /\ ppt_data = [presentation |-> None, file_path |-> 0]
    /\ file_content = None
    /\ nFiles = 0
    /\ iconExists \in BOOLEAN
    /\ uploaded = FALSE
    /\ examined = FALSE
    /\ pre = NoSnapshot
    /\ last = NoResponse

\* The decks the exploration keeps: every text and every slide within bounds.
WithinBounds(deck) ==
    \A i \in DOMAIN deck :
        /\ Len(deck[i]) <= MaxShapes
        /\ \A j \in DOMAIN deck[i] : Len(deck[i][j].text) <= MaxText

\* ------------------------------------------------------------- routes
\* POST /upload.  A missing form field is Flask's 400, a file the library
\* rejects an unhandled exception (500); both leave the store as it was.
upload(file, examine) ==
    /\ ~examined
    /\ UNCHANGED iconExists
    /\ IF file.kind = "missing"
       THEN /\ Record(examine, Response("upload", 400, "error", <<"Bad Request">>,
                                        None, NoReply, 0, <<>>))
            /\ UNCHANGED <<ppt_data, file_content, nFiles, uploaded>>
       ELSE IF file.kind = "corrupt"
       THEN /\ Record(examine, Response("upload", 500, "error", <<"Internal Server Error">>,
                                        None, NoReply, 0, <<>>))
            /\ UNCHANGED <<ppt_data, file_content, nFiles, uploaded>>
       ELSE /\ nFiles < MaxFiles
            /\ LET prs == load_pptx(file)
                   saved == save_pptx(prs, nFiles)
               IN /\ ppt_data' = [presentation |-> Some(prs), file_path |-> saved.path]
                  /\ file_content' = saved.content
            /\ nFiles' = nFiles + 1
            /\ uploaded' = TRUE
            /\ Record(examine, Response("upload", 200, "message", <<"Presentation loaded.">>,
                                        None, NoReply, 0, <<>>))

\* POST /chat; reply is what the language model answers to this request.
chat(reply, examine) ==
    /\ ~examined
    /\ nFiles < MaxFiles
    /\ UNCHANGED <<iconExists, uploaded>>
    /\ IF ppt_data.presentation = None
       THEN /\ Record(examine, Response("chat", 400, "error", <<"No presentation loaded.">>,
                                        None, reply, 0, <<>>))
            /\ UNCHANGED <<ppt_data, file_content, nFiles>>
       ELSE LET out == parse_chat_and_apply(ppt_data.presentation[1], reply, iconExists)
            IN /\ WithinBounds(out.deck)
               /\ IF out.exc = ""
                  THEN /\ ppt_data' = [presentation |-> Some(out.deck),
                                       file_path |-> save_pptx(out.deck, nFiles).path]
                       /\ file_content' = save_pptx(out.deck, nFiles).content
                       /\ nFiles' = nFiles + 1
                       /\ Record(examine, Response("chat", 200, "response", out.ret,
                                                   None, reply, 1, out.invoked))
                  ELSE /\ ppt_data' = [ppt_data EXCEPT !.presentation = Some(out.deck)]
                       /\ UNCHANGED <<file_content, nFiles>>
                       /\ Record(examine, Response("chat", 500, "error", out.ret,
                                                   None, reply, 1, out.invoked))

HasFileAlways(store) == TRUE

\* if ppt_data["file_path"]: a path is a non-empty string, None is falsy.
HasFile(store) == store.file_path # 0

\* GET /download
download(examine) ==
    /\ ~examined
    /\ UNCHANGED <<ppt_data, file_content, nFiles, iconExists, uploaded>>
    /\ IF HasFile(ppt_data)
       THEN Record(examine, Response("download", 200, "attachment", <<>>, file_content,
                                     NoReply, 0, <<>>))
       ELSE Record(examine, Response("download", 200, "error", <<"No file available.">>,
                                     None, NoReply, 0, <<>>))

Upload == \E file \in UploadFiles, examine \in BOOLEAN : upload(file, examine)

Chat == \E reply \in Replies, examine \in BOOLEAN : chat(reply, examine)

Download == \E examine \in BOOLEAN : download(examine)

Next == Upload \/ Chat \/ Download

Spec == Init /\ [][Next]_vars

\* ------------------------------------------------------------- claims
\* The vocabulary of the claims, stated without the operators of the model.

Deck0 == pre.ppt_data.presentation[1]

Deck1 == ppt_data.presentation[1]

Args == last.reply.payload

ExaminedChat == examined /\ last.ep = "chat" /\ pre.ppt_data.presentation # None

\* The reply holds one JSON object with members, possibly with prose around it.
WellFormed(raw) ==
    \E i \in DOMAIN raw :
        /\ i + 2 <= Len(raw)
        /\ raw[i] = "{" /\ raw[i + 1] = "kv" /\ raw[i + 2] = "}"
        /\ \A k \in DOMAIN raw : k \notin {i, i + 1, i + 2} => raw[k] = "w"

\* A chat request whose reply decoded to the descriptor Args.
Resolved == ExaminedChat /\ ~last.reply.error /\ WellFormed(last.reply.raw)

ResolvedAs(action) == Resolved /\ "action" \in DOMAIN Args /\ Args["action"] = action

\* The descriptor names a slide of the deck by its 1-based number.
InRange ==
    /\ "slide_number" \in DOMAIN Args
    /\ Args["slide_number"].type = "int"
    /\ Args["slide_number"].val \in 1..Len(Deck0)

Answered(status, key, str) ==
    last.status = status /\ last.body = [key |-> key, text |-> <<str>>]

OccursAt(t, old, p) ==
    p + Len(old) - 1 <= Len(t) /\ SubSeq(t, p, p + Len(old) - 1) = old

Occurs(t, old) == \E p \in 1..(Len(t) + 1) : OccursAt(t, old, p)

RECURSIVE Flatten(_)
Flatten(pieces) == IF pieces = <<>> THEN <<>> ELSE Head(pieces) \o Flatten(Tail(pieces))

\* The starts of the occurrences of old in t that a left-to-right replacement
\* takes: an occurrence is taken unless an earlier taken one overlaps it.
Taken(t, old) ==
    CHOOSE P \in SUBSET (1..Len(t)) :
        \A p \in 1..Len(t) :
            p \in P <=> /\ OccursAt(t, old, p)
                        /\ \A q \in P : ~(q < p /\ p < q + Len(old))

\* t with every taken occurrence of old replaced by new; the empty string
\* occurs before every character and at the end.
AllReplaced(t, old, new) ==
    IF old = <<>>
    THEN Flatten([i \in 1..Len(t) |-> new \o <<t[i]>>]) \o new
    ELSE LET P == Taken(t, old)
         IN Flatten([i \in 1..Len(t) |->
                IF i \in P THEN new
                ELSE IF \E q \in P : q < i /\ i < q + Len(old) THEN <<>>
                ELSE <<t[i]>>])

\* The positions of slide whose shape exposes text.
TextShapes(slide) == {j \in DOMAIN slide : slide[j].kind = "textbox"}

Least(S) == CHOOSE x \in S : \A y \in S : x <= y

\* C1: before any successful /upload, /chat answers 400 "No presentation
\* loaded." without a completion request or a file written, /download answers
\* "No file available.", and the Deck Store stays empty.
C1_EmptyStoreAnswers ==
    (examined /\ ~uploaded) =>
        /\ ppt_data = [presentation |-> None, file_path |-> 0]
        /\ ppt_data = pre.ppt_data
        /\ file_content = None
        /\ nFiles = 0
        /\ last.ep = "chat" =>
              /\ Answered(400, "error", "No presentation loaded.")
              /\ last.llmCalls = 0
              /\ last.invoked = <<>>
        /\ last.ep = "download" =>
              /\ last.body = [key |-> "error", text |-> <<"No file available.">>]
              /\ last.served = None

C1_Witness ==
    /\ examined /\ ~uploaded
    /\ last.ep = "chat" /\ last.status = 400
    /\ WellFormed(last.reply.raw)
    /\ "action" \in DOMAIN Args /\ Args["action"] = "edit_text"

\* C2: edit_text on slide N of the deck, with old_text and new_text given:
\* the first text shape of slide N that contains old_text has every
\* occurrence replaced and nothing else changes ("Edit applied."); with no
\* such shape the deck is unchanged ("Text not found.").
C2_EditFirstMatch ==
    (ResolvedAs("edit_text") /\ InRange /\ {"old_text", "new_text"} \subseteq DOMAIN Args) =>
        LET n == Args["slide_number"].val
            hits == {j \in TextShapes(Deck0[n]) : Occurs(Deck0[n][j].text, Args["old_text"])}
        IN IF hits # {}
           THEN /\ Answered(200, "response", "Edit applied.")
                /\ Deck1 = [Deck0 EXCEPT ![n][Least(hits)].text =
                               AllReplaced(@, Args["old_text"], Args["new_text"])]
           ELSE /\ Answered(200, "response", "Text not found.")
                /\ Deck1 = Deck0

\* Two occurrences in the second-best place: the first shape of the slide has
\* no match or is no text shape, and the edited text held old_text twice.
C2_Witness ==
    /\ ResolvedAs("edit_text") /\ InRange
    /\ {"old_text", "new_text"} \subseteq DOMAIN Args
    /\ Answered(200, "response", "Edit applied.")
    /\ LET n == Args["slide_number"].val
       IN \E j \in TextShapes(Deck0[n]) :
            /\ j > 1
            /\ Deck1[n][j].text # Deck0[n][j].text
            /\ Cardinality({p \in 1..Len(Deck0[n][j].text) :
                   OccursAt(Deck0[n][j].text, Args["old_text"], p)}) >= 2

\* The raw reply has no span from its first "{" to its last "}" that is a JSON
\* object.
Malformed(raw) ==
    ~ \E i, j \in DOMAIN raw :
        /\ i < j /\ raw[i] = "{" /\ raw[j] = "}"
        /\ \A k \in 1..(i - 1) : raw[k] # "{"
        /\ \A k \in (j + 1)..Len(raw) : raw[k] # "}"
        /\ SubSeq(raw, i, j) \in {<<"{", "kv", "}">>, <<"{", "}">>}

\* C3: a reply with no {...} span, or with a span that is not valid JSON,
\* gives a 200 response starting "Failed to parse GPT response:", calls no
\* handler and leaves the deck as it was.
C3_ParseFailure ==
    (ExaminedChat /\ ~last.reply.error /\ Malformed(last.reply.raw)) =>
        /\ last.status = 200
        /\ last.body.key = "response"
        /\ Len(last.body.text) = 2
        /\ last.body.text[1] = "Failed to parse GPT response: "
        /\ last.invoked = <<>>
        /\ Deck1 = Deck0

\* Two objects with prose between them: a span exists and is not valid JSON.
C3_Witness ==
    /\ ExaminedChat /\ ~last.reply.error /\ Malformed(last.reply.raw)
    /\ Cardinality({i \in DOMAIN last.reply.raw : last.reply.raw[i] = "{"}) = 2
    /\ last.status = 200
    /\ Deck0 # <<>>

\* The k-th smallest element of a set of numbers.
Nth(S, k) == CHOOSE x \in S : Cardinality({y \in S : y <= x}) = k

AtSlot(shape, before, l, t) == shape = [before EXCEPT !.left = l, !.top = t]

\* C4: change_layout on slide N moves the first text shape of the slide to the
\* left slot and the second text shape to the right slot, moves no other shape,
\* and returns "Slide layout updated.".
C4_LayoutMovesTextShapes ==
    (ResolvedAs("change_layout") /\ InRange) =>
        LET n == Args["slide_number"].val
            texts == TextShapes(Deck0[n])
        IN /\ Answered(200, "response", "Slide layout updated.")
           /\ Len(Deck1) = Len(Deck0)
           /\ \A i \in DOMAIN Deck0 : i # n => Deck1[i] = Deck0[i]
           /\ Len(Deck1[n]) = Len(Deck0[n])
           /\ \A j \in DOMAIN Deck0[n] :
                IF j \in texts /\ j = Nth(texts, 1)
                THEN AtSlot(Deck1[n][j], Deck0[n][j], 457200, 457200)
                ELSE IF j \in texts /\ Cardinality(texts) >= 2 /\ j = Nth(texts, 2)
                THEN AtSlot(Deck1[n][j], Deck0[n][j], 3657600, 457200)
                ELSE Deck1[n][j] = Deck0[n][j]

\* C5: apply_style on slide N keeps every text and position, gives every text
\* shape of slide N the same fixed font, changes no other slide, does not
\* depend on the style parameter, and is idempotent.
C5_StyleSlideOnly ==
    (ResolvedAs("apply_style") /\ InRange) =>
        LET n == Args["slide_number"].val
        IN /\ Answered(200, "response", "Modern style applied.")
           /\ Len(Deck1) = Len(Deck0)
           /\ \A i \in DOMAIN Deck0 : i # n => Deck1[i] = Deck0[i]
           /\ Len(Deck1[n]) = Len(Deck0[n])
           /\ \A j \in DOMAIN Deck0[n] :
                IF j \in TextShapes(Deck0[n])
                THEN Deck1[n][j] =
                        [Deck0[n][j] EXCEPT !.font = [name |-> "Arial", size |-> 365760]]
                ELSE Deck1[n][j] = Deck0[n][j]
           /\ \A y \in {"modern", "classic", "none"} :
                handle_apply_style(Deck0, [k \in (DOMAIN Args) \cup {"style"} |->
                    IF k = "style" THEN y ELSE Args[k]]).deck = Deck1
           /\ handle_apply_style(Deck0, [k \in (DOMAIN Args) \ {"style"} |-> Args[k]]).deck
                 = Deck1
           /\ handle_apply_style(Deck1, Args) = Return(Deck1, "Modern style applied.")

\* A styled slide with two text shapes and a picture, under a style parameter.
C5_Witness ==
    /\ ResolvedAs("apply_style") /\ InRange
    /\ "style" \in DOMAIN Args
    /\ last.status = 200
    /\ LET n == Args["slide_number"].val
       IN /\ Cardinality(TextShapes(Deck0[n])) = 2
          /\ Len(Deck0[n]) = 3
          /\ Len(Deck0) = 2
          /\ Deck1 # Deck0

\* C6: once a deck is loaded, the stored path names a file whose content is
\* the in-memory deck, and /download serves that file: the same slides, the
\* same text on each.
C6_DownloadServesCurrentDeck ==
    /\ uploaded =>
          /\ ppt_data.presentation # None
          /\ ppt_data.file_path = nFiles
          /\ file_content = ppt_data.presentation
    /\ (examined /\ last.ep = "download" /\ uploaded) =>
          /\ last.status = 200
          /\ last.body.key = "attachment"
          /\ last.served = ppt_data.presentation
          /\ Len(last.served[1]) = Len(Deck1)
          /\ \A i \in DOMAIN Deck1 :
                get_slide_text(last.served[1][i]) = get_slide_text(Deck1[i])

\* A download after an upload and a chat request that changed the deck.
C6_Witness ==
    /\ examined /\ last.ep = "download" /\ uploaded
    /\ last.body.key = "attachment"
    /\ pre.nFiles = 2
    /\ Deck1 \notin UploadDecks
    /\ Len(Deck1) = 2

\* The four registered action names.
Known == {"edit_text", "apply_style", "add_icon", "change_layout"}

\* C7: a slide_number outside 1..(number of slides), 0 and negative numbers
\* included, makes every handler raise an index error: /chat answers 500 with
\* the exception text and no slide is modified.
C7_OutOfRangeRaises ==
    (/\ Resolved /\ "action" \in DOMAIN Args /\ Args["action"] \in Known
     /\ "slide_number" \in DOMAIN Args
     /\ Args["slide_number"].type = "int"
     /\ Args["slide_number"].val \notin 1..Len(Deck0)) =>
        /\ Answered(500, "error", "slide index out of range")
        /\ Deck1 = Deck0

\* The edit a scan of the whole deck makes, in slide-then-shape order.
FirstHit(deck, old) ==
    LET hits == {<<i, j>> \in (DOMAIN deck) \X (1..MaxShapes) :
                    /\ j \in TextShapes(deck[i])
                    /\ Occurs(deck[i][j].text, old)}
    IN IF hits = {} THEN <<>>
       ELSE CHOOSE h \in hits :
               \A g \in hits : h[1] < g[1] \/ (h[1] = g[1] /\ h[2] <= g[2])

\* C8: edit_text with a slide_number searches that slide only; without one it
\* scans every slide in deck order, edits the first match ("Edit applied.") or
\* finds none ("Text not found."), and does not fail.
C8_NoSlideNumberScansAll ==
    (/\ ResolvedAs("edit_text")
     /\ "slide_number" \notin DOMAIN Args
     /\ {"old_text", "new_text"} \subseteq DOMAIN Args) =>
        LET h == FirstHit(Deck0, Args["old_text"])
        IN IF h # <<>>
           THEN /\ Answered(200, "response", "Edit applied.")
                /\ Deck1 = [Deck0 EXCEPT ![h[1]][h[2]].text =
                               AllReplaced(@, Args["old_text"], Args["new_text"])]
           ELSE /\ Answered(200, "response", "Text not found.")
                /\ Deck1 = Deck0

\* The handler registered under each name, and what it can return.
Registered(action) ==
    IF action = "edit_text" THEN "handle_edit_text"
    ELSE IF action = "apply_style" THEN "handle_apply_style"
    ELSE IF action = "add_icon" THEN "handle_add_icon"
    ELSE "handle_change_layout"

Results(handler) ==
    IF handler = "handle_edit_text" THEN {"Edit applied.", "Text not found."}
    ELSE IF handler = "handle_apply_style" THEN {"Modern style applied."}
    ELSE IF handler = "handle_add_icon" THEN {"Placeholder icon added."}
    ELSE {"Slide layout updated."}

\* C9: an action name outside the table calls no handler, leaves the deck
\* alone and answers 200 "Unknown action."; a name of the table calls the
\* handler registered under it, once, and its result is the response.
C9_DispatchByName ==
    (Resolved /\ "action" \in DOMAIN Args) =>
        IF Args["action"] \notin Known
        THEN /\ last.invoked = <<>>
             /\ Deck1 = Deck0
             /\ Answered(200, "response", "Unknown action.")
        ELSE /\ last.invoked = <<Registered(Args["action"])>>
             /\ last.status \in {200, 500}
             /\ last.status = 200 =>
                   /\ last.body.key = "response"
                   /\ Len(last.body.text) = 1
                   /\ last.body.text[1] \in Results(Registered(Args["action"]))

\* An unknown action name, found in a reply with prose around the object.
C9_Witness ==
    /\ Resolved /\ "action" \in DOMAIN Args
    /\ Args["action"] = "delete_slide"
    /\ Len(last.reply.raw) = 5
    /\ Answered(200, "response", "Unknown action.")
    /\ Deck0 # <<>>

\* C10: a /chat request answered 500 leaves the deck, the stored path and the
\* files as they were; one answered 200 stores the path of a new temporary
\* file that holds the deck.
C10_ChatErrorAtomicity ==
    ExaminedChat =>
        /\ last.status \in {200, 500}
        /\ last.status = 500 =>
              /\ ppt_data = pre.ppt_data
              /\ file_content = pre.file_content
              /\ nFiles = pre.nFiles
        /\ last.status = 200 =>
              /\ nFiles = pre.nFiles + 1
              /\ ppt_data.file_path \notin 0..pre.nFiles
              /\ ppt_data.file_path # pre.ppt_data.file_path
              /\ file_content = ppt_data.presentation

\* A 500 raised in the middle of the scan: a shape matched and new_text is
\* missing.
C10_Witness ==
    /\ ExaminedChat /\ last.status = 500
    /\ last.body = [key |-> "error", text |-> <<"new_text">>]
    /\ last.invoked = <<"handle_edit_text">>
    /\ Len(Deck0) = 2

====
